---- MODULE Spec2Model ----
(***************************************************************************)
(* AlignCV: the refinement loop of AlignmentService.align_resume           *)
(* (backend/app/services/alignment_service.py) together with the parts of  *)
(* the agents and of the pydantic models that decide its control flow.     *)
(*                                                                         *)
(* Conventions.  A Python dict is a function whose DOMAIN is the set of    *)
(* keys present.  A JSON value that may be null is a sequence of length    *)
(* at most one: <<>> is null, <<v>> is the value v.  Scores are integers:  *)
(* ats_score is in points, every ratio of [0,1] is in hundredths.          *)
(***************************************************************************)
EXTENDS Integers, Sequences, FiniteSets, TLC

(***************************************************************************)
(* Bounds of the model.                                                    *)
(***************************************************************************)
MaxIterations == 3   \* largest max_iterations a service is constructed with
MaxLedger == 2       \* most change items the rewrite agent emits in one run

(***************************************************************************)
(* Program constants.                                                      *)
(***************************************************************************)
ATS_TARGET == 95     \* alignment_service.py:140, consistency_checker_agent.py:134
APPROVED_KEYWORD_SCORE == 95   \* consistency_checker_agent.py:135 (0.95)
ATS_MAX == 100       \* models/alignment.py:84  (le=100.0)
RATIO_MAX == 100     \* models/alignment.py:82  (le=1.0, in hundredths)

(***************************************************************************)
(* Dict helpers.                                                           *)
(***************************************************************************)
EmptyDict == [k \in {} |-> 0]

\* dict.get(key, default)
Get(d, k, default) == IF k \in DOMAIN d THEN d[k] ELSE default

\* dict.update(other): every key present in other overwrites, whatever its value
DictUpdate(d, u) ==
    [k \in (DOMAIN d) \cup (DOMAIN u) |-> IF k \in DOMAIN u THEN u[k] ELSE d[k]]

\* Python truthiness of a dict: `if updated_resume_dict:`
Truthy(d) == DOMAIN d # {}

Null == <<>>
Some(v) == <<v>>

(***************************************************************************)
(* models/resume.py                                                        *)
(***************************************************************************)
NoSummary == "<None>"    \* Resume.summary is None

\* Experience(**exp): company and title are required (Field(...))
ExperienceValid(exp) == {"company", "title"} \subseteq DOMAIN exp

\* Experience(**exp) of a valid entry: the defaults are filled in
ToExperience(exp) ==
    [company |-> exp.company, title |-> exp.title,
     is_current |-> Get(exp, "is_current", FALSE)]

\* Resume(**resume_dict): every field but full_name has a default
ResumeFromDict(d) ==
    [full_name |-> d.full_name,
     summary |-> Get(d, "summary", NoSummary),
     technical_skills |-> Get(d, "technical_skills", <<>>),
     experiences |-> Get(d, "experiences", <<>>)]

\* Resume.model_dump(mode='json', exclude_none=True)
ModelDump(resume) ==
    [k \in {"full_name", "technical_skills", "experiences"}
            \cup (IF resume.summary # NoSummary THEN {"summary"} ELSE {})
        |-> resume[k]]

(***************************************************************************)
(* AlignmentService._dict_to_resume                                        *)
(***************************************************************************)
\* the check of lines 214-215
HasFullName(d) == "full_name" \in DOMAIN d

\* lines 218-226: the list is converted as a whole inside one try block and
\* replaced IN PLACE; one entry that fails to validate empties the list
ConvertExperiences(d) ==
    IF "experiences" \in DOMAIN d /\ d.experiences # <<>>
    THEN [d EXCEPT !["experiences"] =
            IF \A i \in 1..Len(d.experiences) : ExperienceValid(d.experiences[i])
            THEN [i \in 1..Len(d.experiences) |-> ToExperience(d.experiences[i])]
            ELSE <<>>]
    ELSE d

\* the Resume returned by _dict_to_resume when full_name is present
DictToResume(d) == ResumeFromDict(ConvertExperiences(d))

(***************************************************************************)
(* The inputs of a run and the outputs the collaborators can produce.      *)
(***************************************************************************)
Acme == [company |-> "Acme", title |-> "Engineer", is_current |-> FALSE]
GoodEntry == [company |-> "Initech", title |-> "Senior Engineer"]
BadEntry == [title |-> "Consultant"]          \* no company

\* request.resume
OriginalResumes ==
    { [full_name |-> "Ann", summary |-> NoSummary,
       technical_skills |-> <<"Python", "SQL">>, experiences |-> <<Acme>>],
      [full_name |-> "", summary |-> "Backend developer",
       technical_skills |-> <<>>, experiences |-> <<>>] }

\* updated_resume of a rewrite result
CandFull == [full_name |-> "Ann", summary |-> "Python engineer",
             technical_skills |-> <<"Python", "Docker">>,
             experiences |-> <<GoodEntry>>]
CandOmitSkills == [full_name |-> "Ann", summary |-> "Python engineer",
                   experiences |-> <<GoodEntry>>]
CandEmptySkills == [full_name |-> "Ann", technical_skills |-> <<>>,
                    experiences |-> <<GoodEntry>>]
CandBadEntry == [full_name |-> "Ann", technical_skills |-> <<"Python", "Docker">>,
                 experiences |-> <<GoodEntry, BadEntry>>]
CandAllEmpty == [technical_skills |-> <<>>, experiences |-> <<>>]
Candidates == {CandFull, CandOmitSkills, CandEmptySkills, CandBadEntry,
               CandAllEmpty, EmptyDict}

\* items of the "changes" list of a rewrite result
ChangeOk == [section |-> Some("summary"), change_type |-> "modified",
             confidence_score |-> Some(90)]
ChangeNoKind == [field |-> "technical_skills", confidence_score |-> Some(50)]
ChangeNullSection == [section |-> Null, change_type |-> "added"]
ChangeNullConfidence == [section |-> Some("skills"), change_type |-> "rewritten",
                         confidence_score |-> Null]
ChangeItems == {ChangeOk, ChangeNoKind, ChangeNullSection, ChangeNullConfidence}

ChangeLists(n) == UNION {[1..m -> ChangeItems] : m \in 0..n}

\* what json.loads gives for the rewrite agent's text
RewriteResults(room) ==
    {[updated_resume |-> c, changes |-> l] : c \in Candidates, l \in ChangeLists(room)}
        \cup {EmptyDict}

\* what json.loads gives for the JD analyzer's text
JDResults == { [must_have_skills |-> <<"Python", "Docker">>, ats_keywords |-> <<"FastAPI">>] }

\* what json.loads gives for the gap analyzer's text
GapResults ==
    { [overall_match_percentage |-> 40, missing_must_have_skills |-> <<"Docker">>],
      [missing_must_have_skills |-> <<>>] }

\* the text of the consistency checker's first event, by the branch of
\* ConsistencyCheckerAgent.check it takes
CheckJsons ==
    { [ats_score |-> 40, keyword_match_score |-> 50, critique |-> "add keywords",
       missing_keywords |-> <<"Docker">>, improvement_priority |-> <<"skills">>],
      [ats_score |-> 60, approved |-> TRUE],
      [ats_score |-> 97, keyword_match_score |-> 90, critique |-> "strong"],
      [ats_score |-> 120, keyword_match_score |-> 90, critique |-> "perfect"] }
CheckOutputs ==
    { [kind |-> "approved"], [kind |-> "text", text |-> "needs work"],
      [kind |-> "json_array"] }
        \cup { [kind |-> "json", json |-> j] : j \in CheckJsons }

(***************************************************************************)
(* ConsistencyCheckerAgent.check, after the text has been extracted.       *)
(***************************************************************************)
ApprovedResult ==
    [ats_score |-> ATS_TARGET, keyword_match_score |-> APPROVED_KEYWORD_SCORE,
     critique |-> "APPROVED", approved |-> TRUE, missing_keywords |-> <<>>,
     improvement_priority |-> <<>>]

\* lines 149-160: text that is not JSON becomes a default result
PlainCritiqueResult(text) ==
    [ats_score |-> 0, keyword_match_score |-> 0, critique |-> text,
     approved |-> FALSE, missing_keywords |-> <<>>, improvement_priority |-> <<>>]

\* the parsed JSON returned as the model wrote it
ParsedResultAsWritten(json) == json

\* lines 146-148: consistency_result["approved"] = False
ParsedResult(json) == DictUpdate(json, [approved |-> FALSE])

CheckResult(out) ==
    CASE out.kind = "approved" -> ApprovedResult
      [] out.kind = "json" -> ParsedResult(out.json)
      [] out.kind = "text" -> PlainCritiqueResult(out.text)

(***************************************************************************)
(* The loop of align_resume.                                               *)
(***************************************************************************)
\* the loop test taken one iteration too far
LoopContinuesInclusive(i, max) == i <= max

\* line 96
LoopContinues(i, max) == i < max

\* the target test without its numeric half
TargetReachedApprovedOnly(approved, ats_score) == approved

\* line 140
TargetReached(approved, ats_score) == approved \/ ats_score >= ATS_TARGET

\* the report replaced by the three fields of the score result
FeedBackReplacesReport(gap, result) ==
    [critique |-> Get(result, "critique", ""),
     missing_keywords |-> Get(result, "missing_keywords", <<>>),
     improvement_priority |-> Get(result, "improvement_priority", <<>>)]

\* lines 145-147
FeedBack(gap, result) ==
    DictUpdate(gap,
        [critique |-> Get(result, "critique", ""),
         missing_keywords |-> Get(result, "missing_keywords", <<>>),
         improvement_priority |-> Get(result, "improvement_priority", <<>>)])

(***************************************************************************)
(* Metrics and the change list, lines 167-179 and _build_diff_objects.     *)
(***************************************************************************)
RECURSIVE SumConfidence(_)
SumConfidence(changes) ==
    IF changes = <<>> THEN 0
    ELSE Get(Head(changes), "confidence_score", Some(0))[1] + SumConfidence(Tail(changes))

\* sum() raises TypeError when a confidence_score is present and null
ConfidenceSummable(changes) ==
    \A i \in 1..Len(changes) : Get(changes[i], "confidence_score", Some(0)) # Null

Max(a, b) == IF a >= b THEN a ELSE b

\* the baseline taken from the final keyword score
BuildMetricsBaselineFromFinal(kw, initial, ats, changes, iter) ==
    [keyword_match_score |-> kw,
     original_keyword_score |-> kw,
     ats_score |-> ats,
     total_changes |-> Len(changes),
     sections_modified |->
        Cardinality({Get(changes[i], "section", Some("")) : i \in 1..Len(changes)}),
     iterations_count |-> iter,
     avg_confidence |-> [sum |-> SumConfidence(changes), count |-> Max(Len(changes), 1)]]

BuildMetrics(kw, initial, ats, changes, iter) ==
    [keyword_match_score |-> kw,
     original_keyword_score |-> initial,
     ats_score |-> ats,
     total_changes |-> Len(changes),
     sections_modified |->
        Cardinality({Get(changes[i], "section", Some("")) : i \in 1..Len(changes)}),
     iterations_count |-> iter,
     avg_confidence |-> [sum |-> SumConfidence(changes), count |-> Max(Len(changes), 1)]]

\* AlignmentMetrics without the bounds on ats_score
MetricsValidNoAtsBounds(m) ==
    /\ 0 <= m.keyword_match_score /\ m.keyword_match_score <= RATIO_MAX
    /\ 0 <= m.original_keyword_score /\ m.original_keyword_score <= RATIO_MAX
    /\ 0 <= m.avg_confidence.sum
    /\ m.avg_confidence.sum <= RATIO_MAX * m.avg_confidence.count

\* the ge/le constraints of AlignmentMetrics
MetricsValid(m) ==
    /\ 0 <= m.keyword_match_score /\ m.keyword_match_score <= RATIO_MAX
    /\ 0 <= m.original_keyword_score /\ m.original_keyword_score <= RATIO_MAX
    /\ 0 <= m.ats_score /\ m.ats_score <= ATS_MAX
    /\ 0 <= m.avg_confidence.sum
    /\ m.avg_confidence.sum <= RATIO_MAX * m.avg_confidence.count

ChangeTypes == {"added", "modified", "removed", "reordered"}

\* DiffObject(...) validates: section is a str, confidence_score in [0,1] or None
DiffValid(change) ==
    /\ Get(change, "section", Some("unknown")) # Null
    /\ LET c == Get(change, "confidence_score", Null)
       IN  c = Null \/ (0 <= c[1] /\ c[1] <= RATIO_MAX)

\* the change kind copied as the rewrite agent wrote it
ToDiffKeepsKind(change) ==
    [section |-> Get(change, "section", Some("unknown"))[1],
     field |-> Get(change, "field", "text"),
     change_type |-> Get(change, "change_type", "modified"),
     confidence_score |-> Get(change, "confidence_score", Null)]

ToDiff(change) ==
    [section |-> Get(change, "section", Some("unknown"))[1],
     field |-> Get(change, "field", "text"),
     change_type |-> IF Get(change, "change_type", "modified") \in ChangeTypes
                     THEN Get(change, "change_type", "modified") ELSE "modified",
     confidence_score |-> Get(change, "confidence_score", Null)]

RECURSIVE BuildDiffObjects(_)
BuildDiffObjects(changes) ==
    IF changes = <<>> THEN <<>>
    ELSE (IF DiffValid(Head(changes)) THEN <<ToDiff(Head(changes))>> ELSE <<>>)
            \o BuildDiffObjects(Tail(changes))

(***************************************************************************)
(* Well-formed collaborator output, as the collaborator contracts and the  *)
(* prompts of the agents describe it.                                      *)
(***************************************************************************)
ResumeFields == {"full_name", "summary", "technical_skills", "experiences"}

WellFormedGap(g) ==
    Get(g, "overall_match_percentage", 0) \in 0..RATIO_MAX

WellFormedCandidate(c) ==
    /\ DOMAIN c = ResumeFields
    /\ c.full_name # ""
    /\ \A i \in 1..Len(c.experiences) : ExperienceValid(c.experiences[i])

WellFormedChange(c) ==
    /\ {"section", "change_type", "confidence_score"} \subseteq DOMAIN c
    /\ c.section # Null
    /\ c.change_type \in ChangeTypes
    /\ c.confidence_score # Null
    /\ c.confidence_score[1] \in 0..RATIO_MAX

WellFormedRewrite(r) ==
    /\ DOMAIN r = {"updated_resume", "changes"}
    /\ WellFormedCandidate(r.updated_resume)
    /\ \A i \in 1..Len(r.changes) : WellFormedChange(r.changes[i])

WellFormedScore(out) ==
    \/ out.kind = "approved"
    \/ /\ out.kind = "json"
       /\ {"ats_score", "keyword_match_score", "critique"} \subseteq DOMAIN out.json
       /\ out.json.ats_score \in 0..ATS_MAX
       /\ out.json.keyword_match_score \in 0..RATIO_MAX

(***************************************************************************)
(* State of one run of align_resume.                                       *)
(***************************************************************************)
VARIABLES
    pc,                   \* where the coroutine is suspended or has ended
    error,                \* the exception the run ended with
    max_iterations,       \* self.max_iterations
    original_resume,      \* request.resume
    jd_analysis, gap_analysis, initial_match,
    current_resume_draft, updated_resume_dict, all_changes, iteration,
    consistency_result, final_ats_score, final_keyword_score,
    aligned_resume, metrics, diff_objects,
    calls,                \* number of calls made to each collaborator
    check_kind,           \* branch taken by the last ConsistencyCheckerAgent.check
    scored_draft,         \* resume_draft serialised into the last check prompt
    draft_before,         \* current_resume_draft at the head of the last iteration
    well_formed,          \* history: every collaborator output so far was well-formed
    printed,              \* the outcome messages written to stdout (lines 141, 152)
    cancel_requested,     \* a cancellation signal raised by the host
    runs,                 \* the locals of each of two runs on one service
    heard,                \* history: the collaborator answers each run got
    actor                 \* history: the run that took the last step

vars == <<pc, error, max_iterations, original_resume, jd_analysis, gap_analysis,
          initial_match, current_resume_draft, updated_resume_dict, all_changes,
          iteration, consistency_result, final_ats_score, final_keyword_score,
          aligned_resume, metrics, diff_objects, calls, check_kind, scored_draft,
          draft_before, well_formed, printed, cancel_requested, runs, heard,
          actor>>

\* state that align_resume neither reads nor writes
env == <<cancel_requested, runs, heard, actor>>

Unset == [unset |-> TRUE]     \* a local that has not been assigned

\* two requests served by the one module-level service (main.py:37)
RunIds == {1, 2}
RequestOf(r) == CHOOSE x \in OriginalResumes : (x.full_name = "Ann") <=> (r = 1)

\* the locals of a call of align_resume before its first statement
Frame0(r) ==
    [pc |-> "Start", error |-> "none", request |-> RequestOf(r),
     jd_analysis |-> Unset, gap_analysis |-> Unset, initial_match |-> 0,
     current_resume_draft |-> Unset, updated_resume_dict |-> Unset,
     all_changes |-> <<>>, iteration |-> 0, final_ats_score |-> 0,
     final_keyword_score |-> 0, aligned_resume |-> Unset, metrics |-> Unset]

Init ==
    /\ pc = "Start"
    /\ error = "none"
    /\ max_iterations \in 0..MaxIterations
    /\ original_resume \in OriginalResumes
    /\ jd_analysis = Unset
    /\ gap_analysis = Unset
    /\ initial_match = 0
    /\ current_resume_draft = Unset
    /\ updated_resume_dict = Unset
    /\ all_changes = <<>>
    /\ iteration = 0
    /\ consistency_result = Unset
    /\ final_ats_score = 0
    /\ final_keyword_score = 0
    /\ aligned_resume = Unset
    /\ metrics = Unset
    /\ diff_objects = <<>>
    /\ calls = [jd |-> 0, gap |-> 0, rewrite |-> 0, check |-> 0]
    /\ check_kind = "none"
    /\ scored_draft = Unset
    /\ draft_before = Unset
    /\ well_formed = TRUE
    /\ printed = {}
    /\ cancel_requested = FALSE
    /\ runs = [r \in RunIds |-> Frame0(r)]
    /\ heard = [r \in RunIds |-> <<>>]
    /\ actor = 0

\* what the message of the exception that ends the run names: the agents put
\* the stage, the decoder's error and the raw output into their ValueError
\* (jd_analyzer_agent.py:127, gap_analyzer_agent.py:152, rewrite_agent.py:156);
\* the other exceptions carry the library's own message
ErrorMessage(e) ==
    CASE e = "JDAnalysisError" ->
            [stage |-> "JD analysis", cause |-> "JSONDecodeError", output |-> "analysis_json_str"]
      [] e = "GapAnalysisError" ->
            [stage |-> "gap analysis", cause |-> "JSONDecodeError", output |-> "gap_str"]
      [] e = "RewriteError" ->
            [stage |-> "rewrite result", cause |-> "JSONDecodeError", output |-> "rewrite_str"]
      [] e = "MissingFullName" -> [field |-> "full_name"]
      [] OTHER -> [cause |-> e]

Called(agent) == calls' = [calls EXCEPT ![agent] = @ + 1]

Raise(e) == pc' = "Failed" /\ error' = e

(***************************************************************************)
(* Step 1, lines 66-75: await self.jd_analyzer.analyze(job_description)    *)
(***************************************************************************)
\* jd_analyzer_agent.py:126-127 raises ValueError
JDFails ==
    /\ pc = "Start"
    /\ Called("jd")
    /\ Raise("JDAnalysisError")
    /\ well_formed' = FALSE
    /\ UNCHANGED <<printed, env>>
    /\ UNCHANGED <<max_iterations, original_resume, jd_analysis, gap_analysis,
                   initial_match, current_resume_draft, updated_resume_dict,
                   all_changes, iteration, consistency_result, final_ats_score,
                   final_keyword_score, aligned_resume, metrics, diff_objects,
                   check_kind, scored_draft, draft_before>>

\* the JD analysis followed at once by the loop, the gap analysis left out
JDReturnsSkipsGap ==
    /\ pc = "Start"
    /\ Called("jd")
    /\ jd_analysis' \in JDResults
    /\ current_resume_draft' = ModelDump(original_resume)
    /\ pc' = "Loop"
    /\ UNCHANGED <<printed, env>>
    /\ UNCHANGED well_formed
    /\ UNCHANGED <<error, max_iterations, original_resume, gap_analysis,
                   initial_match, updated_resume_dict,
                   all_changes, iteration, consistency_result, final_ats_score,
                   final_keyword_score, aligned_resume, metrics, diff_objects,
                   check_kind, scored_draft, draft_before>>

JDReturns ==
    /\ pc = "Start"
    /\ Called("jd")
    /\ jd_analysis' \in JDResults
    /\ pc' = "GapAnalysis"
    /\ UNCHANGED <<printed, env>>
    /\ UNCHANGED well_formed
    /\ UNCHANGED <<error, max_iterations, original_resume, gap_analysis,
                   initial_match, current_resume_draft, updated_resume_dict,
                   all_changes, iteration, consistency_result, final_ats_score,
                   final_keyword_score, aligned_resume, metrics, diff_objects,
                   check_kind, scored_draft, draft_before>>

AnalyzeJD == JDFails \/ JDReturns

(***************************************************************************)
(* Step 2 and the loop's initialisation, lines 77-94.                      *)
(***************************************************************************)
\* gap_analyzer_agent.py:151-152 raises ValueError
GapFails ==
    /\ pc = "GapAnalysis"
    /\ Called("gap")
    /\ Raise("GapAnalysisError")
    /\ well_formed' = FALSE
    /\ UNCHANGED <<printed, env>>
    /\ UNCHANGED <<max_iterations, original_resume, jd_analysis, gap_analysis,
                   initial_match, current_resume_draft, updated_resume_dict,
                   all_changes, iteration, consistency_result, final_ats_score,
                   final_keyword_score, aligned_resume, metrics, diff_objects,
                   check_kind, scored_draft, draft_before>>

\* the draft made by stripping the request's resume itself instead of a copy
GapReturnsStripsRequest ==
    /\ pc = "GapAnalysis"
    /\ Called("gap")
    /\ \E g \in GapResults :
         /\ gap_analysis' = g
         /\ initial_match' = Get(g, "overall_match_percentage", 0)
         /\ well_formed' = (well_formed /\ WellFormedGap(g))
    /\ current_resume_draft' = ModelDump(original_resume)
    /\ original_resume' = [original_resume EXCEPT
            !.summary = IF @ = NoSummary THEN "" ELSE @,
            !.experiences = <<>>]
    /\ all_changes' = <<>>
    /\ iteration' = 0
    /\ final_ats_score' = 0
    /\ final_keyword_score' = 0
    /\ pc' = "Loop"
    /\ UNCHANGED <<printed, env>>
    /\ UNCHANGED <<error, max_iterations, jd_analysis,
                   updated_resume_dict, consistency_result, aligned_resume,
                   metrics, diff_objects, check_kind, scored_draft, draft_before>>

GapReturns ==
    /\ pc = "GapAnalysis"
    /\ Called("gap")
    /\ \E g \in GapResults :
         /\ gap_analysis' = g
         /\ initial_match' = Get(g, "overall_match_percentage", 0)
         /\ well_formed' = (well_formed /\ WellFormedGap(g))
    /\ current_resume_draft' = ModelDump(original_resume)
    /\ all_changes' = <<>>
    /\ iteration' = 0
    /\ final_ats_score' = 0
    /\ final_keyword_score' = 0
    /\ pc' = "Loop"
    /\ UNCHANGED <<printed, env>>
    /\ UNCHANGED <<error, max_iterations, original_resume, jd_analysis,
                   updated_resume_dict, consistency_result, aligned_resume,
                   metrics, diff_objects, check_kind, scored_draft, draft_before>>

AnalyzeGaps == GapFails \/ GapReturns

(***************************************************************************)
(* Lines 96-117: the loop test, _dict_to_resume of the draft, the rewrite  *)
(* call and the merge of its result.                                       *)
(***************************************************************************)
\* _dict_to_resume raises ValueError at line 215, before the agent is called
\* a draft without full_name passed over: the iteration is not counted and
\* nothing is raised
RewriteMissingNameSkipped ==
    /\ pc = "Loop"
    /\ LoopContinues(iteration, max_iterations)
    /\ ~HasFullName(current_resume_draft)
    /\ draft_before' = current_resume_draft
    /\ UNCHANGED <<printed, env>>
    /\ UNCHANGED well_formed
    /\ UNCHANGED <<pc, error, iteration, max_iterations, original_resume,
                   jd_analysis, gap_analysis,
                   initial_match, current_resume_draft, updated_resume_dict,
                   all_changes, consistency_result, final_ats_score,
                   final_keyword_score, aligned_resume, metrics, diff_objects,
                   calls, check_kind, scored_draft>>

RewriteMissingName ==
    /\ pc = "Loop"
    /\ LoopContinues(iteration, max_iterations)
    /\ ~HasFullName(current_resume_draft)
    /\ iteration' = iteration + 1
    /\ draft_before' = current_resume_draft
    /\ Raise("MissingFullName")
    /\ UNCHANGED <<printed, env>>
    /\ UNCHANGED well_formed
    /\ UNCHANGED <<max_iterations, original_resume, jd_analysis, gap_analysis,
                   initial_match, current_resume_draft, updated_resume_dict,
                   all_changes, consistency_result, final_ats_score,
                   final_keyword_score, aligned_resume, metrics, diff_objects,
                   calls, check_kind, scored_draft>>

\* a rewrite failure that is recorded and then retried by the loop
RewriteFailsRetried ==
    /\ pc = "Loop"
    /\ LoopContinues(iteration, max_iterations)
    /\ HasFullName(current_resume_draft)
    /\ iteration' = iteration + 1
    /\ draft_before' = current_resume_draft
    /\ current_resume_draft' = ConvertExperiences(current_resume_draft)
    /\ Called("rewrite")
    /\ error' = "RewriteError"
    /\ pc' = "Loop"
    /\ well_formed' = FALSE
    /\ UNCHANGED <<printed, env>>
    /\ UNCHANGED <<max_iterations, original_resume, jd_analysis, gap_analysis,
                   initial_match, updated_resume_dict, all_changes,
                   consistency_result, final_ats_score, final_keyword_score,
                   aligned_resume, metrics, diff_objects, check_kind, scored_draft>>

\* rewrite_agent.py:152-156 raises ValueError; align_resume does not catch it
RewriteFails ==
    /\ pc = "Loop"
    /\ LoopContinues(iteration, max_iterations)
    /\ HasFullName(current_resume_draft)
    /\ iteration' = iteration + 1
    /\ draft_before' = current_resume_draft
    /\ current_resume_draft' = ConvertExperiences(current_resume_draft)
    /\ Called("rewrite")
    /\ Raise("RewriteError")
    /\ well_formed' = FALSE
    /\ UNCHANGED <<printed, env>>
    /\ UNCHANGED <<max_iterations, original_resume, jd_analysis, gap_analysis,
                   initial_match, updated_resume_dict, all_changes,
                   consistency_result, final_ats_score, final_keyword_score,
                   aligned_resume, metrics, diff_objects, check_kind, scored_draft>>

\* the change list holding the changes of the latest rewrite only
RewriteReturnsLatestChanges ==
    /\ pc = "Loop"
    /\ LoopContinues(iteration, max_iterations)
    /\ HasFullName(current_resume_draft)
    /\ iteration' = iteration + 1
    /\ draft_before' = current_resume_draft
    /\ Called("rewrite")
    /\ \E rewrite_result \in RewriteResults(MaxLedger - Len(all_changes)) :
         LET updated == Get(rewrite_result, "updated_resume", EmptyDict)
             changes == Get(rewrite_result, "changes", <<>>)
             converted == ConvertExperiences(current_resume_draft)
         IN  /\ updated_resume_dict' = updated
             /\ all_changes' = changes
             /\ well_formed' = (well_formed /\ WellFormedRewrite(rewrite_result))
             /\ current_resume_draft' =
                    IF Truthy(updated) THEN DictUpdate(converted, updated)
                    ELSE converted
    /\ pc' = "Check"
    /\ UNCHANGED <<printed, env>>
    /\ UNCHANGED <<error, max_iterations, original_resume, jd_analysis,
                   gap_analysis, initial_match, consistency_result,
                   final_ats_score, final_keyword_score, aligned_resume, metrics,
                   diff_objects, check_kind, scored_draft>>

RewriteReturns ==
    /\ pc = "Loop"
    /\ LoopContinues(iteration, max_iterations)
    /\ HasFullName(current_resume_draft)
    /\ iteration' = iteration + 1
    /\ draft_before' = current_resume_draft
    /\ Called("rewrite")
    /\ \E rewrite_result \in RewriteResults(MaxLedger - Len(all_changes)) :
         LET updated == Get(rewrite_result, "updated_resume", EmptyDict)
             changes == Get(rewrite_result, "changes", <<>>)
             converted == ConvertExperiences(current_resume_draft)
         IN  /\ updated_resume_dict' = updated
             /\ all_changes' = all_changes \o changes
             /\ well_formed' = (well_formed /\ WellFormedRewrite(rewrite_result))
             /\ current_resume_draft' =
                    IF Truthy(updated) THEN DictUpdate(converted, updated)
                    ELSE converted
    /\ pc' = "Check"
    /\ UNCHANGED <<printed, env>>
    /\ UNCHANGED <<error, max_iterations, original_resume, jd_analysis,
                   gap_analysis, initial_match, consistency_result,
                   final_ats_score, final_keyword_score, aligned_resume, metrics,
                   diff_objects, check_kind, scored_draft>>

Rewrite == RewriteMissingName \/ RewriteFails \/ RewriteReturns

(***************************************************************************)
(* Lines 119-149: the consistency check of the candidate, the replacement  *)
(* of the draft, the target test and the feedback into gap_analysis.       *)
(***************************************************************************)
\* json.loads gave a value that is not an object: line 147 raises TypeError,
\* which the except clause of line 149 does not catch
CheckRaises ==
    /\ pc = "Check"
    /\ Called("check")
    /\ scored_draft' = updated_resume_dict
    /\ check_kind' = "json_array"
    /\ Raise("TypeError")
    /\ well_formed' = FALSE
    /\ UNCHANGED <<printed, env>>
    /\ UNCHANGED <<max_iterations, original_resume, jd_analysis, gap_analysis,
                   initial_match, current_resume_draft, updated_resume_dict,
                   all_changes, iteration, consistency_result, final_ats_score,
                   final_keyword_score, aligned_resume, metrics, diff_objects,
                   draft_before>>

\* the best score of the run kept instead of the last one
CheckReturnsKeepsBest ==
    /\ pc = "Check"
    /\ Called("check")
    /\ scored_draft' = updated_resume_dict
    /\ \E out \in CheckOutputs :
         /\ out.kind # "json_array"
         /\ check_kind' = out.kind
         /\ well_formed' = (well_formed /\ WellFormedScore(out))
         /\ LET result == CheckResult(out)
                ats_score == Get(result, "ats_score", 0)
                keyword_score == Get(result, "keyword_match_score", 0)
                approved == Get(result, "approved", FALSE)
            IN  /\ consistency_result' = result
                /\ final_ats_score' = Max(final_ats_score, ats_score)
                /\ final_keyword_score' = Max(final_keyword_score, keyword_score)
                /\ IF TargetReached(approved, ats_score)
                   THEN /\ pc' = "Exit"
                        /\ printed' = printed \cup {"ATS target reached"}
                        /\ UNCHANGED gap_analysis
                   ELSE /\ pc' = "Loop"
                        /\ UNCHANGED printed
                        /\ gap_analysis' = FeedBack(gap_analysis, result)
    /\ current_resume_draft' = updated_resume_dict
    /\ UNCHANGED env
    /\ UNCHANGED <<error, max_iterations, original_resume, jd_analysis,
                   initial_match, updated_resume_dict, all_changes, iteration,
                   aligned_resume, metrics, diff_objects, draft_before>>

CheckReturns ==
    /\ pc = "Check"
    /\ Called("check")
    /\ scored_draft' = updated_resume_dict
    /\ \E out \in CheckOutputs :
         /\ out.kind # "json_array"
         /\ check_kind' = out.kind
         /\ well_formed' = (well_formed /\ WellFormedScore(out))
         /\ LET result == CheckResult(out)
                ats_score == Get(result, "ats_score", 0)
                keyword_score == Get(result, "keyword_match_score", 0)
                approved == Get(result, "approved", FALSE)
            IN  /\ consistency_result' = result
                /\ final_ats_score' = ats_score
                /\ final_keyword_score' = keyword_score
                /\ IF TargetReached(approved, ats_score)
                   THEN /\ pc' = "Exit"
                        /\ printed' = printed \cup {"ATS target reached"}
                        /\ UNCHANGED gap_analysis
                   ELSE /\ pc' = "Loop"
                        /\ UNCHANGED printed
                        /\ gap_analysis' = FeedBack(gap_analysis, result)
    /\ current_resume_draft' = updated_resume_dict
    /\ UNCHANGED env
    /\ UNCHANGED <<error, max_iterations, original_resume, jd_analysis,
                   initial_match, updated_resume_dict, all_changes, iteration,
                   aligned_resume, metrics, diff_objects, draft_before>>

Check == CheckRaises \/ CheckReturns

(***************************************************************************)
(* Lines 151-198, reached by break or by the loop test failing.            *)
(***************************************************************************)
LoopExited ==
    pc = "Exit" \/ (pc = "Loop" /\ ~LoopContinues(iteration, max_iterations))

\* line 151
MaxIterationsReached(i, max) == i >= max

\* lines 151-152: the message is printed whenever the counter has reached the
\* budget, also when the loop was left by break in its last iteration
ReportExhaustion ==
    printed' = IF MaxIterationsReached(iteration, max_iterations)
               THEN printed \cup {"Max iterations reached"}
               ELSE printed

\* after the first iteration current_resume_draft and updated_resume_dict are
\* one object (line 135), so the conversion in place shows through both names
FinalConversion ==
    /\ current_resume_draft' = ConvertExperiences(current_resume_draft)
    /\ updated_resume_dict' =
            IF iteration > 0 THEN ConvertExperiences(current_resume_draft)
            ELSE updated_resume_dict
    /\ aligned_resume' = DictToResume(current_resume_draft)

\* line 155: _dict_to_resume raises ValueError
FinishMissingName ==
    /\ LoopExited
    /\ ~HasFullName(current_resume_draft)
    /\ Raise("MissingFullName")
    /\ ReportExhaustion
    /\ UNCHANGED env
    /\ UNCHANGED well_formed
    /\ UNCHANGED <<max_iterations, original_resume, jd_analysis, gap_analysis,
                   initial_match, current_resume_draft, updated_resume_dict,
                   all_changes, iteration, consistency_result, final_ats_score,
                   final_keyword_score, aligned_resume, metrics, diff_objects,
                   calls, check_kind, scored_draft, draft_before>>

\* line 174: sum() over a null confidence_score raises TypeError
FinishTypeError ==
    /\ LoopExited
    /\ HasFullName(current_resume_draft)
    /\ FinalConversion
    /\ ~ConfidenceSummable(all_changes)
    /\ Raise("TypeError")
    /\ ReportExhaustion
    /\ UNCHANGED env
    /\ UNCHANGED well_formed
    /\ UNCHANGED <<max_iterations, original_resume, jd_analysis, gap_analysis,
                   initial_match, all_changes, iteration, consistency_result,
                   final_ats_score, final_keyword_score, metrics, diff_objects,
                   calls, check_kind, scored_draft, draft_before>>

\* line 167: AlignmentMetrics(...) raises ValidationError
FinishMetricsInvalid ==
    /\ LoopExited
    /\ HasFullName(current_resume_draft)
    /\ FinalConversion
    /\ ConfidenceSummable(all_changes)
    /\ ~MetricsValid(BuildMetrics(final_keyword_score, initial_match,
                                  final_ats_score, all_changes, iteration))
    /\ Raise("ValidationError")
    /\ ReportExhaustion
    /\ UNCHANGED env
    /\ UNCHANGED well_formed
    /\ UNCHANGED <<max_iterations, original_resume, jd_analysis, gap_analysis,
                   initial_match, all_changes, iteration, consistency_result,
                   final_ats_score, final_keyword_score, metrics, diff_objects,
                   calls, check_kind, scored_draft, draft_before>>

\* line 187: template_id is not defined anywhere in align_resume or in the
\* module, so building the response raises NameError after the metrics and
\* the change list have been built
FinishNameError ==
    /\ LoopExited
    /\ HasFullName(current_resume_draft)
    /\ FinalConversion
    /\ ConfidenceSummable(all_changes)
    /\ LET m == BuildMetrics(final_keyword_score, initial_match,
                             final_ats_score, all_changes, iteration)
       IN  /\ MetricsValid(m)
           /\ metrics' = m
    /\ diff_objects' = BuildDiffObjects(all_changes)
    /\ Raise("NameError")
    /\ ReportExhaustion
    /\ UNCHANGED env
    /\ UNCHANGED well_formed
    /\ UNCHANGED <<max_iterations, original_resume, jd_analysis, gap_analysis,
                   initial_match, all_changes, iteration, consistency_result,
                   final_ats_score, final_keyword_score, calls, check_kind,
                   scored_draft, draft_before>>

Finish == FinishMissingName \/ FinishTypeError \/ FinishMetricsInvalid
            \/ FinishNameError

Next == AnalyzeJD \/ AnalyzeGaps \/ Rewrite \/ Check \/ Finish

Spec == Init /\ [][Next]_vars

(***************************************************************************)
(* The host asking for the run to stop.  align_resume takes the request as *)
(* its only argument (line 47) and its loop tests only the iteration count *)
(* (line 96) and the score (line 140), so a request raised while the run   *)
(* is between two iterations changes nothing the run reads.                *)
(***************************************************************************)
CancelIterations == 2

InitCancel ==
    /\ Init
    /\ max_iterations = CancelIterations

RequestCancel ==
    /\ pc = "Loop"
    /\ ~cancel_requested
    /\ cancel_requested' = TRUE
    /\ UNCHANGED <<pc, error, max_iterations, original_resume, jd_analysis,
                   gap_analysis, initial_match, current_resume_draft,
                   updated_resume_dict, all_changes, iteration,
                   consistency_result, final_ats_score, final_keyword_score,
                   aligned_resume, metrics, diff_objects, calls, check_kind,
                   scored_draft, draft_before, well_formed, printed, runs,
                   heard, actor>>

NextCancel == Next \/ RequestCancel

SpecCancel == InitCancel /\ [][NextCancel]_vars

(***************************************************************************)
(* A run whose awaited collaborator calls all come back: every await of    *)
(* align_resume (lines 73, 79, 103, 122) is resumed with a result or an    *)
(* exception, and the code between two awaits runs to the next one.        *)
(***************************************************************************)
LiveIterations == 2

InitLive ==
    /\ Init
    /\ max_iterations = LiveIterations
    /\ original_resume = RequestOf(1)

FairSpec == InitLive /\ [][Next]_vars /\ WF_vars(Next)

(***************************************************************************)
(* Two calls of align_resume on the one service of main.py:37.  Each call  *)
(* is a coroutine with its own locals; the event loop resumes either of    *)
(* them at an await (lines 73, 79, 103, 122).  The service's attributes    *)
(* are assigned in __init__ only (lines 32-46); max_iterations is the one  *)
(* the run reads.                                                          *)
(***************************************************************************)
TwoRunIterations == 2

NoAnswer == [agent |-> "none", ok |-> TRUE, out |-> EmptyDict]

\* what the collaborator awaited by a run at f can answer
AnswersFor(f, max) ==
    CASE f.pc = "Start" ->
            {[agent |-> "jd", ok |-> TRUE, out |-> j] : j \in JDResults}
                \cup {[agent |-> "jd", ok |-> FALSE, out |-> EmptyDict]}
      [] f.pc = "GapAnalysis" ->
            {[agent |-> "gap", ok |-> TRUE, out |-> g] : g \in GapResults}
                \cup {[agent |-> "gap", ok |-> FALSE, out |-> EmptyDict]}
      [] f.pc = "Loop" /\ LoopContinues(f.iteration, max)
                       /\ HasFullName(f.current_resume_draft) ->
            {[agent |-> "rewrite", ok |-> TRUE,
              out |-> [updated_resume |-> c, changes |-> <<ChangeOk>>]] :
                    c \in {CandFull, CandOmitSkills}}
                \cup {[agent |-> "rewrite", ok |-> FALSE, out |-> EmptyDict]}
      [] f.pc = "Check" ->
            {[agent |-> "check", ok |-> TRUE, out |-> o] :
                    o \in {x \in CheckOutputs :
                             \/ x.kind = "approved"
                             \/ (x.kind = "json" /\ x.json.ats_score = 40)}}
      [] OTHER -> {NoAnswer}

\* the run ends with an exception
FrameRaise(f, e) == [f EXCEPT !.pc = "Failed", !.error = e]

\* lines 97-117
FrameRewrite(f, a) ==
    LET g == [f EXCEPT !.iteration = @ + 1]
        converted == ConvertExperiences(f.current_resume_draft)
        updated == Get(a.out, "updated_resume", EmptyDict)
        changes == Get(a.out, "changes", <<>>)
    IN  IF ~HasFullName(f.current_resume_draft) THEN FrameRaise(g, "MissingFullName")
        ELSE IF ~a.ok
        THEN FrameRaise([g EXCEPT !.current_resume_draft = converted], "RewriteError")
        ELSE [g EXCEPT !.updated_resume_dict = updated,
                       !.all_changes = @ \o changes,
                       !.current_resume_draft =
                            IF Truthy(updated) THEN DictUpdate(converted, updated)
                            ELSE converted,
                       !.pc = "Check"]

\* lines 119-149
FrameCheck(f, a) ==
    LET result == CheckResult(a.out)
        ats_score == Get(result, "ats_score", 0)
        keyword_score == Get(result, "keyword_match_score", 0)
        reached == TargetReached(Get(result, "approved", FALSE), ats_score)
    IN  [f EXCEPT !.final_ats_score = ats_score,
                  !.final_keyword_score = keyword_score,
                  !.current_resume_draft = f.updated_resume_dict,
                  !.gap_analysis = IF reached THEN @ ELSE FeedBack(@, result),
                  !.pc = IF reached THEN "Exit" ELSE "Loop"]

\* lines 151-198
FrameFinish(f) ==
    IF ~HasFullName(f.current_resume_draft) THEN FrameRaise(f, "MissingFullName")
    ELSE LET converted == ConvertExperiences(f.current_resume_draft)
             h == [f EXCEPT !.current_resume_draft = converted,
                            !.updated_resume_dict =
                                IF f.iteration > 0 THEN converted ELSE @,
                            !.aligned_resume = DictToResume(f.current_resume_draft)]
             m == BuildMetrics(f.final_keyword_score, f.initial_match,
                               f.final_ats_score, f.all_changes, f.iteration)
         IN  IF ~ConfidenceSummable(f.all_changes) THEN FrameRaise(h, "TypeError")
             ELSE IF ~MetricsValid(m) THEN FrameRaise(h, "ValidationError")
             ELSE FrameRaise([h EXCEPT !.metrics = m], "NameError")

\* the code of align_resume from one await to the next, on the locals f
StepFrame(f, max, a) ==
    CASE f.pc = "Start" ->
            IF a.ok THEN [f EXCEPT !.jd_analysis = a.out, !.pc = "GapAnalysis"]
            ELSE FrameRaise(f, "JDAnalysisError")
      [] f.pc = "GapAnalysis" ->
            IF a.ok
            THEN [f EXCEPT !.gap_analysis = a.out,
                           !.initial_match = Get(a.out, "overall_match_percentage", 0),
                           !.current_resume_draft = ModelDump(f.request),
                           !.all_changes = <<>>,
                           !.iteration = 0,
                           !.final_ats_score = 0,
                           !.final_keyword_score = 0,
                           !.pc = "Loop"]
            ELSE FrameRaise(f, "GapAnalysisError")
      [] f.pc = "Loop" /\ LoopContinues(f.iteration, max) -> FrameRewrite(f, a)
      [] f.pc = "Check" -> FrameCheck(f, a)
      [] OTHER -> FrameFinish(f)

\* every run's locals kept in one place, as attributes of the service would be
LocalsOfService(r) == 1

\* the locals of run r are those of its own call
LocalsOf(r) == r

RunStep(r) ==
    /\ runs[LocalsOf(r)].pc # "Failed"
    /\ \E a \in AnswersFor(runs[LocalsOf(r)], max_iterations) :
         /\ runs' = [runs EXCEPT ![LocalsOf(r)] = StepFrame(@, max_iterations, a)]
         /\ heard' = [heard EXCEPT ![r] = Append(@, a)]
    /\ actor' = r
    /\ UNCHANGED <<pc, error, max_iterations, original_resume, jd_analysis,
                   gap_analysis, initial_match, current_resume_draft,
                   updated_resume_dict, all_changes, iteration,
                   consistency_result, final_ats_score, final_keyword_score,
                   aligned_resume, metrics, diff_objects, calls, check_kind,
                   scored_draft, draft_before, well_formed, printed,
                   cancel_requested>>

InitTwoRuns ==
    /\ Init
    /\ max_iterations = TwoRunIterations
    /\ original_resume = RequestOf(1)

NextTwoRuns == \E r \in RunIds : RunStep(r)

SpecTwoRuns == InitTwoRuns /\ [][NextTwoRuns]_vars

(***************************************************************************)
(* Lines 151-198 on their own: a run whose first iteration was approved by *)
(* the checker (lines 131-142 of consistency_checker_agent.py) and left    *)
(* the loop by the break of line 142, for every candidate and change list  *)
(* the rewrite agent can have returned in that iteration, among them       *)
(* change items with a kind outside ChangeType and with a confidence       *)
(* outside [0,1].                                                          *)
(***************************************************************************)
MaxFinishLedger == 2

ChangeUnknownKind == [section |-> Some("skills"), change_type |-> "rewritten",
                      confidence_score |-> Some(80)]
ChangeBadConfidence == [section |-> Some("summary"), change_type |-> "modified",
                        confidence_score |-> Some(150)]
LedgerItems == ChangeItems \cup {ChangeUnknownKind, ChangeBadConfidence}

LedgerLists(n) == UNION {[1..m -> LedgerItems] : m \in 0..n}

InitFinish ==
    /\ pc = "Exit"
    /\ error = "none"
    /\ max_iterations = 1
    /\ original_resume = RequestOf(1)
    /\ jd_analysis \in JDResults
    /\ gap_analysis \in GapResults
    /\ initial_match = Get(gap_analysis, "overall_match_percentage", 0)
    /\ updated_resume_dict \in {CandFull, EmptyDict}
    /\ current_resume_draft = updated_resume_dict
    /\ all_changes \in LedgerLists(MaxFinishLedger)
    /\ iteration = 1
    /\ consistency_result = ApprovedResult
    /\ final_ats_score = Get(ApprovedResult, "ats_score", 0)
    /\ final_keyword_score = Get(ApprovedResult, "keyword_match_score", 0)
    /\ aligned_resume = Unset
    /\ metrics = Unset
    /\ diff_objects = <<>>
    /\ calls = [jd |-> 1, gap |-> 1, rewrite |-> 1, check |-> 1]
    /\ check_kind = "approved"
    /\ scored_draft = updated_resume_dict
    /\ draft_before = ModelDump(original_resume)
    /\ well_formed = (/\ WellFormedGap(gap_analysis)
                      /\ updated_resume_dict = CandFull
                      /\ \A i \in 1..Len(all_changes) : WellFormedChange(all_changes[i]))
    /\ printed = {"ATS target reached"}
    /\ cancel_requested = FALSE
    /\ runs = [r \in RunIds |-> Frame0(r)]
    /\ heard = [r \in RunIds |-> <<>>]
    /\ actor = 0

NextFinish == Finish

SpecFinish == InitFinish /\ [][NextFinish]_vars

TypeOK ==
    /\ pc \in {"Start", "GapAnalysis", "Loop", "Check", "Exit", "Failed"}
    /\ iteration \in 0..MaxIterations
    /\ Len(all_changes) <= MaxLedger

(***************************************************************************)
(* Properties.                                                             *)
(***************************************************************************)
NoCalls == [jd |-> 0, gap |-> 0, rewrite |-> 0, check |-> 0]

\* the loop has been left (by break or by its test) or the run has ended in it
AfterColdAnalysis == calls.gap = 1 /\ gap_analysis # Unset

\* C1: with max_iterations >= 1, a run that gets past cold analysis executes
\* between 1 and max_iterations loop iterations (the count reported as
\* metrics.iterations_count), and the rewrite agent is called at most
\* max_iterations times.
C1_IterationsWithinBudget ==
    (max_iterations >= 1 /\ AfterColdAnalysis) =>
        /\ iteration <= max_iterations
        /\ calls.rewrite <= max_iterations
        /\ (pc \in {"Check", "Exit", "Failed"} => iteration >= 1)
        /\ (metrics # Unset =>
                /\ metrics.iterations_count = iteration
                /\ 1 <= metrics.iterations_count
                /\ metrics.iterations_count <= max_iterations)

C1_Witness ==
    /\ max_iterations = MaxIterations
    /\ metrics # Unset
    /\ metrics.iterations_count = max_iterations
    /\ calls.rewrite = max_iterations

\* the last consistency result passes the target test of the loop
LastScorePasses ==
    /\ consistency_result # Unset
    /\ \/ consistency_result.approved
       \/ Get(consistency_result, "ats_score", 0) >= 95

\* C2: once the consistency result of iteration i is approved or has
\* ats_score >= 95, no further rewrite or consistency call is made, the
\* iteration counter stays at i, and the reported iteration count is i.
C2_StopsWhenTargetReached ==
    /\ [][LastScorePasses =>
            /\ calls'.rewrite = calls.rewrite
            /\ calls'.check = calls.check
            /\ iteration' = iteration]_vars
    /\ [](LastScorePasses =>
            /\ iteration = calls.check
            /\ pc \in {"Exit", "Failed"}
            /\ (metrics # Unset => metrics.iterations_count = calls.check))

C2_Witness ==
    /\ max_iterations = 3
    /\ final_ats_score = 97
    /\ ~consistency_result.approved
    /\ metrics # Unset
    /\ metrics.iterations_count = 1
    /\ calls.rewrite = 1 /\ calls.check = 1

\* C3: a run with max_iterations >= 1 in which every collaborator returned
\* well-formed output, the candidates containing every field, never ends in
\* an error.
C3_WellFormedRunReturns ==
    (well_formed /\ max_iterations >= 1) => pc # "Failed"

\* a field value that the merge policy counts as empty
IsEmptyValue(f, v) == IF f \in {"full_name", "summary"} THEN v = "" ELSE v = <<>>

Provides(d, f) == f \in DOMAIN d /\ ~IsEmptyValue(f, d[f])

\* an iteration has completed and nothing after the loop has run yet
IterationCompleted == pc \in {"Loop", "Exit"} /\ iteration >= 1

\* C4: after each iteration every top-level field of the draft holds the
\* candidate's value if the candidate has a non-empty value for it, and
\* otherwise the value the draft had before the iteration.
C4_MergeKeepsMissingFields ==
    IterationCompleted =>
        \A f \in ResumeFields :
            IF Provides(updated_resume_dict, f)
            THEN /\ f \in DOMAIN current_resume_draft
                 /\ current_resume_draft[f] = updated_resume_dict[f]
            ELSE /\ (f \in DOMAIN current_resume_draft) = (f \in DOMAIN draft_before)
                 /\ (f \in DOMAIN draft_before =>
                        current_resume_draft[f] = draft_before[f])

\* C5: after an iteration whose candidate has no non-empty field, the draft
\* is the draft of before the iteration, and the run does not fail for the
\* lack of a field.
C5_EmptyCandidateKeepsDraft ==
    (/\ iteration >= 1
     /\ updated_resume_dict # Unset
     /\ \A f \in ResumeFields : ~Provides(updated_resume_dict, f)) =>
        /\ (pc \in {"Loop", "Exit"} => current_resume_draft = draft_before)
        /\ error # "MissingFullName"

\* C6: the reported total_changes equals the length of the list of
\* DiffObjects built for the response.
C6_TotalChangesIsLedgerLength ==
    metrics # Unset => metrics.total_changes = Len(diff_objects)

\* C7: when request.resume.full_name is empty the run fails with the
\* missing-field error before any collaborator has been called.
C7_EmptyNameFailsFirst ==
    original_resume.full_name = "" =>
        /\ calls = NoCalls
        /\ (pc # "Start" => (pc = "Failed" /\ error = "MissingFullName"))

\* C8: when the consistency checker's output cannot be parsed into a
\* structured result, the run fails at that iteration; no default score is
\* substituted and the loop does not go on.
C8_UnparseableScoreFailsRun ==
    check_kind \in {"text", "json_array"} =>
        /\ pc = "Failed"
        /\ consistency_result = Unset \/ consistency_result.critique # "needs work"

\* C9: a failure of the gap analyzer or of the rewrite agent ends the run:
\* after a gap failure no rewrite or consistency call has been or is made,
\* after a rewrite failure in iteration i the consistency checker has been
\* called i-1 times and nothing is called again, and no collaborator is
\* called more than once per iteration.
C9_FailureIsTerminal ==
    /\ [](/\ calls.jd <= 1 /\ calls.gap <= 1
          /\ calls.check <= calls.rewrite
          /\ calls.rewrite <= iteration
          /\ calls.rewrite <= calls.check + 1
          /\ (error = "GapAnalysisError" =>
                pc = "Failed" /\ calls.rewrite = 0 /\ calls.check = 0)
          /\ (error = "RewriteError" =>
                /\ pc = "Failed"
                /\ calls.rewrite = iteration
                /\ calls.check = iteration - 1))
    /\ [][(error \in {"GapAnalysisError", "RewriteError"}) =>
            (calls' = calls /\ pc' = "Failed")]_vars

C9_Witness ==
    /\ pc = "Failed"
    /\ error = "RewriteError"
    /\ iteration = 2
    /\ calls.rewrite = 2 /\ calls.check = 1

RECURSIVE CountInvalid(_)
CountInvalid(entries) ==
    IF entries = <<>> THEN 0
    ELSE (IF ExperienceValid(Head(entries)) THEN 0 ELSE 1) + CountInvalid(Tail(entries))

ValidEntries(entries) == SelectSeq(entries, ExperienceValid)

\* C10: when exactly one Experience entry of the last candidate is malformed,
\* the aligned resume holds the candidate's other entries, in order.
C10_OnlyMalformedEntryDropped ==
    (/\ aligned_resume # Unset
     /\ iteration >= 1
     /\ "experiences" \in DOMAIN scored_draft
     /\ CountInvalid(scored_draft.experiences) = 1) =>
        /\ Len(aligned_resume.experiences) = Len(scored_draft.experiences) - 1
        /\ \A i \in 1..Len(aligned_resume.experiences) :
             /\ aligned_resume.experiences[i].company =
                    ValidEntries(scored_draft.experiences)[i].company
             /\ aligned_resume.experiences[i].title =
                    ValidEntries(scored_draft.experiences)[i].title

\* C11: once cancellation has been requested between two iterations, no
\* further rewrite is made, and the run ends reported as cancelled, neither
\* as a success nor as exhausted.
C11_CancelStopsBeforeNextRewrite ==
    /\ [][(cancel_requested /\ pc = "Loop") => calls'.rewrite = calls.rewrite]_vars
    /\ []((cancel_requested /\ aligned_resume # Unset) =>
            printed \cap {"ATS target reached", "Max iterations reached"} = {})

\* the locals a run has after the answers hs when it is the only run
RECURSIVE RunAlone(_, _, _)
RunAlone(f, max, hs) ==
    IF hs = <<>> THEN f
    ELSE RunAlone(StepFrame(f, max, Head(hs)), max, Tail(hs))

RECURSIVE SumPresentConfidence(_)
SumPresentConfidence(changes) ==
    IF changes = <<>> THEN 0
    ELSE (LET c == Get(Head(changes), "confidence_score", Null)
          IN  IF c = Null THEN 0 ELSE c[1])
            + SumPresentConfidence(Tail(changes))

\* C12: avg_confidence is 0 for an empty change list and otherwise the sum of
\* the confidence values, an absent or null one counting as 0, over the number
\* of change items; computing it never fails.
C12_AvgConfidenceIsMean ==
    /\ (aligned_resume # Unset => error # "TypeError")
    /\ (metrics # Unset =>
            /\ metrics.avg_confidence.sum = SumPresentConfidence(all_changes)
            /\ (all_changes = <<>> => metrics.avg_confidence.sum = 0)
            /\ (all_changes # <<>> => metrics.avg_confidence.count = Len(all_changes)))

\* C13: a run that has left the loop and converted its final draft reports
\* exactly one outcome: success iff the last score passed the target test,
\* exhaustion iff max_iterations iterations ran and the last did not pass.
C13_ExactlyOneOutcome ==
    (max_iterations >= 1 /\ aligned_resume # Unset) =>
        /\ ("ATS target reached" \in printed) <=> LastScorePasses
        /\ ("Max iterations reached" \in printed) <=>
                (iteration = max_iterations /\ ~LastScorePasses)
        /\ ("ATS target reached" \in printed) # ("Max iterations reached" \in printed)

\* C14: a consistency result that is approved has ats_score >= 95, and a
\* result parsed from the model's JSON is never approved.
C14_ApprovedOnlyAtTarget ==
    consistency_result # Unset =>
        /\ (Get(consistency_result, "approved", FALSE) =>
                Get(consistency_result, "ats_score", 0) >= 95)
        /\ (check_kind = "json" => ~Get(consistency_result, "approved", FALSE))

C14_Witness ==
    /\ check_kind = "json"
    /\ consistency_result # Unset
    /\ Get(consistency_result, "ats_score", 0) = 60
    /\ ~Get(consistency_result, "approved", TRUE)
    /\ pc = "Loop"

\* C16: the metrics built for the response have ats_score in [0,100],
\* keyword_match_score in [0,1] and total_changes >= 0.
C16_MetricsInRange ==
    metrics # Unset =>
        /\ 0 <= metrics.ats_score /\ metrics.ats_score <= 100
        /\ 0 <= metrics.keyword_match_score /\ metrics.keyword_match_score <= 100
        /\ metrics.total_changes >= 0

C16_Witness ==
    /\ metrics # Unset
    /\ metrics.ats_score = 97
    /\ metrics.keyword_match_score = 90
    /\ metrics.total_changes >= 1
    /\ calls.check >= 2

\* C17: the aligned resume carries the full_name of the request's resume.
C17_FullNamePreserved ==
    aligned_resume # Unset => aligned_resume.full_name = original_resume.full_name

\* C18: the error of a run that a collaborator made fail names the
\* collaborator and the iteration in which it failed.
C18_ErrorNamesStageAndIteration ==
    (pc = "Failed" /\ error \in {"JDAnalysisError", "GapAnalysisError", "RewriteError"}) =>
        {"stage", "iteration"} \subseteq DOMAIN ErrorMessage(error)

\* C19: the collaborator calls are sequential and ordered: the gap analyzer
\* is called once, before any rewrite; a consistency call follows each
\* rewrite call before the next rewrite call; rewrite calls minus consistency
\* calls is always 0 or 1.
C19_CallsAreSequential ==
    /\ [](/\ calls.gap <= 1
          /\ (calls.rewrite >= 1 => (calls.jd = 1 /\ calls.gap = 1))
          /\ calls.rewrite - calls.check \in {0, 1})
    /\ [][/\ (calls'.gap # calls.gap =>
                (calls.gap = 0 /\ calls.rewrite = 0 /\ calls.check = 0))
          /\ (calls'.rewrite # calls.rewrite =>
                /\ calls.gap = 1
                /\ calls.rewrite = calls.check
                /\ calls'.rewrite = calls.rewrite + 1
                /\ calls'.check = calls.check)
          /\ (calls'.check # calls.check =>
                /\ calls.rewrite = calls.check + 1
                /\ calls'.check = calls.check + 1
                /\ calls'.rewrite = calls.rewrite)]_vars

C19_Witness ==
    /\ pc = "Check"
    /\ iteration = 2
    /\ calls = [jd |-> 1, gap |-> 1, rewrite |-> 2, check |-> 1]

\* the merge policy: a field the candidate provides non-empty is taken from
\* the candidate, any other field keeps the value of the base
PolicyMerge(base, cand) ==
    [f \in {g \in ResumeFields : Provides(cand, g) \/ g \in DOMAIN base} |->
        IF Provides(cand, f) THEN cand[f] ELSE base[f]]

\* C20: the document passed to the consistency checker is the merged draft,
\* and the draft after the iteration is that same merged draft.
C20_MergedDraftIsScored ==
    IterationCompleted =>
        /\ scored_draft = PolicyMerge(draft_before, updated_resume_dict)
        /\ current_resume_draft = scored_draft

\* the fields of gap_analysis that lines 145-147 assign
FeedbackFields == {"critique", "missing_keywords", "improvement_priority"}

\* C21: the report passed to the first rewrite call is the cold gap analysis
\* as returned; a consistency check that does not end the loop replaces
\* critique, missing_keywords and improvement_priority by those of its result
\* and nothing else ever changes the report, so every other field keeps the
\* value of the cold analysis.
C21_FeedbackReplacesThreeFields ==
    /\ []((pc = "Loop" /\ iteration = 0) => gap_analysis \in GapResults)
    /\ [][gap_analysis # Unset =>
            /\ DOMAIN gap_analysis' \ FeedbackFields = DOMAIN gap_analysis \ FeedbackFields
            /\ \A k \in DOMAIN gap_analysis \ FeedbackFields :
                    gap_analysis'[k] = gap_analysis[k]
            /\ (gap_analysis' # gap_analysis =>
                    (calls'.check = calls.check + 1 /\ pc' = "Loop"))
            /\ ((calls'.check = calls.check + 1 /\ pc' = "Loop") =>
                    /\ FeedbackFields \subseteq DOMAIN gap_analysis'
                    /\ gap_analysis'.critique = Get(consistency_result', "critique", "")
                    /\ gap_analysis'.missing_keywords =
                            Get(consistency_result', "missing_keywords", <<>>)
                    /\ gap_analysis'.improvement_priority =
                            Get(consistency_result', "improvement_priority", <<>>))]_vars

C21_Witness ==
    /\ pc = "Check"
    /\ iteration = 2
    /\ calls.rewrite = 2
    /\ FeedbackFields \subseteq DOMAIN gap_analysis
    /\ gap_analysis.critique = "add keywords"
    /\ gap_analysis.missing_keywords = <<"Docker">>
    /\ gap_analysis.missing_must_have_skills = <<"Docker">>
    /\ Get(gap_analysis, "overall_match_percentage", 0) = 40

\* C22: initial_match is the overall_match_percentage of the cold gap
\* analysis (0 if absent), is set before the first rewrite call, is changed by
\* no later step and is reported as metrics.original_keyword_score.
C22_BaselineSetOnce ==
    /\ [][calls.gap = 1 => initial_match' = initial_match]_vars
    /\ []((calls.gap = 1 /\ gap_analysis # Unset) =>
            initial_match = Get(gap_analysis, "overall_match_percentage", 0))
    /\ [](metrics # Unset => metrics.original_keyword_score = initial_match)

C22_Witness ==
    /\ metrics # Unset
    /\ metrics.original_keyword_score = 40
    /\ metrics.keyword_match_score = 50
    /\ iteration = 2
    /\ "critique" \in DOMAIN gap_analysis

\* C23: after every completed iteration, and in the metrics, the final ATS
\* score and keyword score are those of the consistency result of the last
\* executed iteration, whether the loop stopped early or ran out of budget.
C23_FinalScoreIsLast ==
    /\ (iteration >= 1 /\ pc \in {"Loop", "Exit"}) =>
            /\ final_ats_score = Get(consistency_result, "ats_score", 0)
            /\ final_keyword_score = Get(consistency_result, "keyword_match_score", 0)
    /\ (iteration >= 1 /\ metrics # Unset) =>
            /\ metrics.ats_score = Get(consistency_result, "ats_score", 0)
            /\ metrics.keyword_match_score =
                    Get(consistency_result, "keyword_match_score", 0)

C23_Witness ==
    /\ metrics # Unset
    /\ iteration = 2
    /\ iteration = max_iterations
    /\ metrics.ats_score = 0
    /\ check_kind = "text"
    /\ "ATS target reached" \notin printed

\* a change item that DiffObject accepts: section is a string, and the
\* confidence is absent, null or within [0,1]
Convertible(c) ==
    /\ ("section" \in DOMAIN c => c.section # Null)
    /\ (("confidence_score" \in DOMAIN c /\ c.confidence_score # Null) =>
            (0 <= c.confidence_score[1] /\ c.confidence_score[1] <= 100))

\* C24: a change item whose kind is missing or is none of added, modified,
\* removed, reordered becomes a DiffObject of kind modified, and an item with
\* one of these kinds keeps it; no item is dropped for its kind.
C24_UnknownKindBecomesModified ==
    (metrics # Unset /\ \A i \in 1..Len(all_changes) : Convertible(all_changes[i])) =>
        /\ Len(diff_objects) = Len(all_changes)
        /\ \A i \in 1..Len(all_changes) :
             diff_objects[i].change_type =
                IF /\ "change_type" \in DOMAIN all_changes[i]
                   /\ all_changes[i].change_type \in
                        {"added", "modified", "removed", "reordered"}
                THEN all_changes[i].change_type
                ELSE "modified"

C24_Witness ==
    /\ metrics # Unset
    /\ all_changes = <<ChangeUnknownKind, ChangeNoKind>>
    /\ Len(diff_objects) = 2
    /\ diff_objects[1].change_type = "modified"
    /\ diff_objects[1].section = "skills"
    /\ diff_objects[2].change_type = "modified"

\* C25: a change item that cannot be converted to a DiffObject is skipped
\* and does not abort the run: when the change list is otherwise sound (no
\* null confidence), the metrics and the DiffObject list get built, the list
\* holding one DiffObject for every other item.
C25_UnconvertibleItemSkipped ==
    (/\ aligned_resume # Unset
     /\ \E i \in 1..Len(all_changes) : ~Convertible(all_changes[i])
     /\ \A i \in 1..Len(all_changes) :
            ("confidence_score" \in DOMAIN all_changes[i] =>
                all_changes[i].confidence_score # Null)) =>
        /\ error # "ValidationError"
        /\ metrics # Unset
        /\ Len(diff_objects) = Len(SelectSeq(all_changes, Convertible))

\* C26: the change list only grows, at its end and only in a rewrite step:
\* what it held before a step is a prefix of what it holds after, and the
\* DiffObject list built from it has one entry per item, in the same order,
\* also when the same section occurs twice.
C26_LedgerAppendOnly ==
    /\ [][gap_analysis # Unset =>
            /\ Len(all_changes') >= Len(all_changes)
            /\ SubSeq(all_changes', 1, Len(all_changes)) = all_changes
            /\ (all_changes' # all_changes => calls'.rewrite = calls.rewrite + 1)]_vars
    /\ []((metrics # Unset /\ \A i \in 1..Len(all_changes) : Convertible(all_changes[i])) =>
            /\ Len(diff_objects) = Len(all_changes)
            /\ \A i \in 1..Len(all_changes) :
                 /\ diff_objects[i].section =
                        Get(all_changes[i], "section", Some("unknown"))[1]
                 /\ diff_objects[i].field = Get(all_changes[i], "field", "text")
                 /\ diff_objects[i].confidence_score =
                        Get(all_changes[i], "confidence_score", Null))

C26_Witness ==
    /\ metrics # Unset
    /\ iteration = 2
    /\ all_changes = <<ChangeOk, ChangeOk>>
    /\ Len(diff_objects) = 2
    /\ diff_objects[1] = diff_objects[2]
    /\ diff_objects[1].section = "summary"

\* C27: metrics.sections_modified is the number of distinct sections among
\* the DiffObjects built for the response.
C27_SectionsCountMatchesLedger ==
    metrics # Unset =>
        metrics.sections_modified =
            Cardinality({diff_objects[i].section : i \in 1..Len(diff_objects)})

\* C28: when every collaborator call returns or fails, the run ends, after
\* at most max_iterations rewrite calls and max_iterations consistency calls,
\* also when no score reaches the target.  (A run can only end in an
\* exception: line 187 raises when everything before it succeeded.)
C28_RunTerminates ==
    <>(/\ pc = "Failed"
       /\ calls.rewrite <= max_iterations
       /\ calls.check <= max_iterations)

C28_Witness ==
    /\ pc = "Failed"
    /\ error = "NameError"
    /\ max_iterations = LiveIterations
    /\ iteration = max_iterations
    /\ calls.check = max_iterations
    /\ "ATS target reached" \notin printed
    /\ final_ats_score < 95

\* C29: no step of the run changes request.resume.
C29_RequestResumeUnchanged ==
    [][original_resume' = original_resume]_vars

C29_Witness ==
    /\ aligned_resume # Unset
    /\ iteration = 2
    /\ original_resume.full_name = ""
    /\ aligned_resume.full_name = "Ann"
    /\ original_resume.summary = "Backend developer"
    /\ original_resume \in OriginalResumes

\* C30: the aligned resume has, field by field, the content of the document
\* that was passed to the consistency checker in the last iteration, also
\* when an experience entry of that document fails conversion.
C30_AlignedResumeIsScoredDocument ==
    (aligned_resume # Unset /\ iteration >= 1) =>
        /\ aligned_resume.full_name = scored_draft.full_name
        /\ aligned_resume.summary = Get(scored_draft, "summary", NoSummary)
        /\ aligned_resume.technical_skills = Get(scored_draft, "technical_skills", <<>>)
        /\ Len(aligned_resume.experiences) = Len(Get(scored_draft, "experiences", <<>>))
        /\ \A i \in 1..Len(aligned_resume.experiences) :
             /\ aligned_resume.experiences[i].company = scored_draft.experiences[i].company
             /\ aligned_resume.experiences[i].title = scored_draft.experiences[i].title

====
